---- MODULE Spec2Model ----
(***************************************************************************)
(* A model of russh-server (src/src/main.rs): the shared client registry   *)
(* `clients`, the per-connection handlers (channel_open_session, data,     *)
(* post), the connection-id counter of new_client, the two authentication  *)
(* callbacks, and tcpip_forward with the task it spawns.                   *)
(*                                                                         *)
(* One handler runs per connection at a time (the transport engine awaits  *)
(* the handler's future before it reads the next event of that             *)
(* connection); handlers of different connections interleave at every      *)
(* await point: the registry lock and each send on a destination's bounded *)
(* inbound queue.                                                          *)
(***************************************************************************)
EXTENDS Naturals, Integers, Sequences, FiniteSets, TLC

\* ---------------------------------------------------------------- bounds
MaxClients == 3        \* connections accepted in one run
MaxData == 2           \* data events in one run
MaxOpens == 2          \* channel-open events for one (connection, channel)
QueueCap == 2          \* capacity of a connection's inbound handle queue
MaxPeers == 2          \* connections in the runs with forwarding
MaxTasks == 1          \* tcpip_forward requests in one run
MaxBurst == 3          \* data events in the runs on waiting for the lock

Handlers == 1..MaxClients
Channels == {1, 2}                 \* ChannelId values the engine hands out
\* Inbound byte strings: 'h', the two bytes of U+00E9, the first two bytes
\* of a three-byte sequence, and 0xFF, which starts no sequence.
Payloads == {<<104, 195, 169, 226, 130, 255>>}
NoLock == 0

VARIABLES
    users,      \* Server.users: the credential store
    id,         \* Server.id of the listening server: the next connection id
    nclients,   \* number of handlers new_client has returned
    hid,        \* hid[h]: Server.id of handler h (its connection id)
    pc,         \* pc[h]: where handler h's connection stands
    cur,        \* cur[h]: the arguments of the callback h is running
    chans,      \* chans[h][ch]: how often channel ch was opened on h
    clients,    \* Server.clients: (id, channel) -> Handle
    lock,       \* holder of the clients mutex, or NoLock
    waiters,    \* handlers waiting for the mutex, first come first served
    todo,       \* registry entries the running post has still to visit
    att,        \* the sends of the running post so far: <<key, succeeded>>
    inbox,      \* inbox[h]: messages queued on the handles of connection h
    out,        \* out[h]: channel data written to connection h, in order
    events,     \* log of the data events: sender, channel, bytes, result
    lastAuth,   \* the last authentication attempt and its answer
    forwards,   \* log of the tcpip_forward calls and their answers
    tasks       \* the tasks tcpip_forward has spawned, in spawning order

vars == <<users, id, nclients, hid, pc, cur, chans, clients, lock, waiters,
          todo, att, inbox, out, events, lastAuth, forwards, tasks>>

\* ------------------------------------------------------ credential store
NoPassword == "<none>"             \* Option::None of UserConfig.password
UserNames == {"alice", "bob", "mallory"}
Passwords == {"secret", "wrong", ""}
Fingerprints == {"fp1", "fp2"}

UserConfig(pw, ks) == [password |-> pw, keys |-> ks]

\* The store of the running relay: alice has a password, bob has keys.
ExampleUsers ==
    [u \in {"alice", "bob"} |->
        IF u = "alice" THEN UserConfig("secret", {})
                       ELSE UserConfig(NoPassword, {"fp1"})]

\* Stores a configuration file can produce, over two user names.
UserConfigs ==
    {UserConfig(pw, ks) : pw \in {NoPassword, "secret", ""},
                          ks \in SUBSET Fingerprints}

\* alice has any configuration, bob (when there) a password and one key.
BobConfig == UserConfig("wrong", {"fp2"})

Stores ==
    {s \in UNION {[names -> UserConfigs \cup {BobConfig}] :
                    names \in SUBSET {"alice", "bob"}} :
        /\ "bob" \in DOMAIN s => s["bob"] = BobConfig
        /\ "alice" \in DOMAIN s => s["alice"] \in UserConfigs}

KeyInputs == Fingerprints \cup {"fp3"}       \* fingerprints presented

MethodSetAll ==
    {"NONE", "PASSWORD", "PUBLICKEY", "HOSTBASED", "KEYBOARD_INTERACTIVE"}

\* server::Auth::Accept
AuthAccept == [tag |-> "Accept", proceed_with_methods |-> {}]

\* A reject that offers no method to go on with.
AuthReject_NoRetry == [tag |-> "Reject", proceed_with_methods |-> {}]

\* server::Auth::Reject { proceed_with_methods: Some(MethodSet::all()) }
AuthReject == [tag |-> "Reject", proceed_with_methods |-> MethodSetAll]

NoAttempt == [method |-> "none", user |-> "", credential |-> "",
              result |-> AuthAccept, retry |-> FALSE]

\* HashMap::get on the store: an Option, as a set of at most one element.
users_get(store, user) ==
    IF user \in DOMAIN store THEN {store[user]} ELSE {}

\* A comparison that takes a missing password for the empty one.
auth_password_DefaultEmpty(store, user, password) ==
    IF /\ user \in DOMAIN store
       /\ password = (IF store[user].password = NoPassword
                      THEN "" ELSE store[user].password)
    THEN AuthAccept ELSE AuthReject

\* auth_password: get, and_then(password), filter(==), map(Accept),
\* unwrap_or_else(Reject{all methods}).
auth_password(store, user, password) ==
    LET found == users_get(store, user)
        pws == {uc.password : uc \in {x \in found : x.password # NoPassword}}
        kept == {pw \in pws : pw = password}
        mapped == {AuthAccept : pw \in kept}
    IN  IF mapped # {} THEN CHOOSE a \in mapped : TRUE ELSE AuthReject

\* A lookup of the fingerprint among the keys of all users.
auth_publickey_AnyUser(store, user, fingerprint) ==
    IF /\ user \in DOMAIN store
       /\ \E u \in DOMAIN store : fingerprint \in store[u].keys
    THEN AuthAccept ELSE AuthReject

\* auth_publickey: get, filter(keys.contains(fingerprint)), map(Accept),
\* unwrap_or_else(Reject{all methods}).
auth_publickey(store, user, fingerprint) ==
    LET found == users_get(store, user)
        kept == {uc \in found : fingerprint \in uc.keys}
        mapped == {AuthAccept : uc \in kept}
    IN  IF mapped # {} THEN CHOOSE a \in mapped : TRUE ELSE AuthReject

\* ------------------------------------------------------------- messages
ReplacementChar == 65533           \* U+FFFD

\* utf8_char_width: the length of the sequence a byte starts, 0 for a byte
\* that starts none (0x80..0xC1, 0xF5..0xFF).
utf8_char_width(b) ==
    IF b < 128 THEN 1
    ELSE IF b >= 194 /\ b <= 223 THEN 2
    ELSE IF b >= 224 /\ b <= 239 THEN 3
    ELSE IF b >= 240 /\ b <= 244 THEN 4
    ELSE 0

\* safe_get: the i-th byte, 0 past the end.
safe_get(bytes, i) == IF i <= Len(bytes) THEN bytes[i] ELSE 0

\* A continuation byte, 0x80..0xBF.
IsCont(b) == b >= 128 /\ b <= 191

\* The second byte of a sequence of three or four bytes fits its first:
\* no overlong form, no surrogate, nothing above U+10FFFF.
SecondOk(b0, b1) ==
    \/ b0 = 224 /\ b1 >= 160 /\ b1 <= 191
    \/ b0 >= 225 /\ b0 <= 236 /\ IsCont(b1)
    \/ b0 = 237 /\ b1 >= 128 /\ b1 <= 159
    \/ b0 >= 238 /\ b0 <= 239 /\ IsCont(b1)
    \/ b0 = 240 /\ b1 >= 144 /\ b1 <= 191
    \/ b0 >= 241 /\ b0 <= 243 /\ IsCont(b1)
    \/ b0 = 244 /\ b1 >= 128 /\ b1 <= 143

\* The first chunk of a non-empty byte string: n bytes that are either one
\* well-formed sequence, decoded to its character ch, or the longest
\* prefix of a sequence that cannot be completed, replaced by one U+FFFD.
Scan(bytes) ==
    LET b0 == bytes[1]
        b1 == safe_get(bytes, 2)
        b2 == safe_get(bytes, 3)
        b3 == safe_get(bytes, 4)
        w == utf8_char_width(b0)
        bad(n) == [n |-> n, ch |-> ReplacementChar]
    IN  IF w = 1 THEN [n |-> 1, ch |-> b0]
        ELSE IF w = 2 THEN
            IF IsCont(b1)
            THEN [n |-> 2, ch |-> (b0 - 192) * 64 + (b1 - 128)]
            ELSE bad(1)
        ELSE IF w = 3 THEN
            IF ~SecondOk(b0, b1) THEN bad(1)
            ELSE IF ~IsCont(b2) THEN bad(2)
            ELSE [n |-> 3, ch |-> (b0 - 224) * 4096 + (b1 - 128) * 64
                                  + (b2 - 128)]
        ELSE IF w = 4 THEN
            IF ~SecondOk(b0, b1) THEN bad(1)
            ELSE IF ~IsCont(b2) THEN bad(2)
            ELSE IF ~IsCont(b3) THEN bad(3)
            ELSE [n |-> 4, ch |-> (b0 - 240) * 262144 + (b1 - 128) * 4096
                                  + (b2 - 128) * 64 + (b3 - 128)]
        ELSE bad(1)

\* String::from_utf8_lossy, as the sequence of the characters' code
\* points: chunk after chunk.
RECURSIVE from_utf8_lossy(_)
from_utf8_lossy(bytes) ==
    IF bytes = <<>> THEN <<>>
    ELSE <<Scan(bytes).ch>>
         \o from_utf8_lossy(SubSeq(bytes, Scan(bytes).n + 1, Len(bytes)))

\* format!("Got data: {}\r\n", ...)
FormatLine(bytes) == <<"Got data: ">> \o from_utf8_lossy(bytes) \o <<"\r\n">>

NoCall == [channel |-> 0, data |-> <<>>, ev |-> 0]

Msg(ch, line, ev, via) == [channel |-> ch, data |-> line, ev |-> ev, via |-> via]

\* -------------------------------------------------------------- registry
EmptyMap == [k \in {} |-> 0]

\* HashMap::insert: the value of an existing key is replaced.
insert(m, k, v) == [x \in DOMAIN m \cup {k} |-> IF x = k THEN v ELSE m[x]]

\* Handles that all deliver to the first connection.
Handle_First(h, n) == [sess |-> 1, inst |-> n]

\* Session::handle(): a sender for the session's inbound queue; `inst`
\* tells the handles created for one channel apart.
Handle(h, n) == [sess |-> h, inst |-> n]

Init ==
    /\ users = ExampleUsers
    /\ id = 0
    /\ nclients = 0
    /\ hid = [h \in Handlers |-> 0]
    /\ pc = [h \in Handlers |-> "absent"]
    /\ cur = [h \in Handlers |-> NoCall]
    /\ chans = [h \in Handlers |-> [c \in Channels |-> 0]]
    /\ clients = EmptyMap
    /\ lock = NoLock
    /\ waiters = <<>>
    /\ todo = {}
    /\ att = {}
    /\ inbox = [h \in Handlers |-> <<>>]
    /\ out = [h \in Handlers |-> <<>>]
    /\ events = <<>>
    /\ lastAuth = NoAttempt
    /\ forwards = <<>>
    /\ tasks = <<>>

\* ------------------------------------------------------------ new_client
\* new_client: the handler is a clone taken before the increment.
new_client_id(serverId) == serverId

\* A counter that is not moved on.
new_client_next_Same(serverId) == serverId

\* self.id += 1
new_client_next(serverId) == serverId + 1

\* The engine accepts a connection and asks for its handler; the connection
\* starts in its authentication phase.
NewClient ==
    /\ nclients < MaxClients
    /\ nclients' = nclients + 1
    /\ hid' = [hid EXCEPT ![nclients + 1] = new_client_id(id)]
    /\ id' = new_client_next(id)
    /\ pc' = [pc EXCEPT ![nclients + 1] = "auth"]
    /\ UNCHANGED <<users, cur, chans, clients, lock, waiters, todo, att,
                   inbox, out, events, lastAuth, forwards, tasks>>

\* -------------------------------------------------------- authentication
AuthPhase == {"auth", "retry"}     \* before the first attempt, after a reject

\* What the engine does with the answer: an accepted connection goes on to
\* its channels, a rejected one may try again.
AfterAuth(result) == IF result.tag = "Accept" THEN "idle" ELSE "retry"

AuthPassword(h, user, password) ==
    /\ pc[h] \in AuthPhase
    /\ LET result == auth_password(users, user, password)
       IN  /\ lastAuth' = [method |-> "password", user |-> user,
                           credential |-> password, result |-> result,
                           retry |-> pc[h] = "retry"]
           /\ pc' = [pc EXCEPT ![h] = AfterAuth(result)]
    /\ UNCHANGED <<users, id, nclients, hid, cur, chans, clients, lock,
                   waiters, todo, att, inbox, out, events, forwards,
                   tasks>>

AuthPublickey(h, user, fingerprint) ==
    /\ pc[h] \in AuthPhase
    /\ LET result == auth_publickey(users, user, fingerprint)
       IN  /\ lastAuth' = [method |-> "publickey", user |-> user,
                           credential |-> fingerprint, result |-> result,
                           retry |-> pc[h] = "retry"]
           /\ pc' = [pc EXCEPT ![h] = AfterAuth(result)]
    /\ UNCHANGED <<users, id, nclients, hid, cur, chans, clients, lock,
                   waiters, todo, att, inbox, out, events, forwards,
                   tasks>>

\* ------------------------------------------------------- the clients lock
\* A lock that never makes a handler wait.
LockFree_Always == TRUE

\* A lock that broadcasts share with each other (a read lock for post).
LockFree_Shared == lock = NoLock \/ todo # {}

\* self.clients.lock().await returns at once when the mutex is free.
LockFree == lock = NoLock

\* A fan-out that does not pass over the sender's own entries.
IsOther_NoSkip(h, k) == TRUE

\* if *id != self.id
IsOther(h, k) == k[1] # hid[h]

\* The entries the loop of post sends to: those of an id other than the
\* sender's (the others are passed over without an await).
Others(h, keys) == {k \in keys : IsOther(h, k)}

\* tokio's Mutex is fair: dropping the guard hands the mutex to the handler
\* that has waited longest, which then is inside its critical section; a
\* post starts its iteration over the registry `regs` of that moment.
Granted == IF waiters = <<>> THEN NoLock ELSE Head(waiters)

Unlock(regs) ==
    /\ lock' = Granted
    /\ waiters' = IF waiters = <<>> THEN <<>> ELSE Tail(waiters)
    /\ att' = {}
    /\ todo' = IF Granted # NoLock /\ pc[Granted] = "post_wait"
               THEN Others(Granted, DOMAIN regs)
               ELSE {}

\* pc once handler h has returned and the mutex was handed on.
PcAfterReturn(h) ==
    [x \in Handlers |->
        IF x = h THEN "idle"
        ELSE IF x = Granted
             THEN (IF pc[x] = "post_wait" THEN "post_iter" ELSE "open_cs")
             ELSE pc[x]]

\* -------------------------------------------------- channel_open_session
\* A key without the connection id.
RegistryKey_NoId(h, ch) == <<0, ch>>

\* The key channel_open_session registers the channel under.
RegistryKey(h, ch) == <<hid[h], ch>>

\* clients.insert((self.id, channel), session.handle())
Registered(h, ch) ==
    insert(clients, RegistryKey(h, ch), Handle(h, chans[h][ch] + 1))

\* A channel-open that is turned down.
OpenReply_Deny == FALSE

\* Ok((self, session, true)): the answer to the channel-open.
OpenReply == TRUE

\* The engine's channel table once the handler has answered: a channel
\* that was granted is open.
Opened(h, ch) ==
    [chans EXCEPT ![h][ch] = IF OpenReply THEN @ + 1 ELSE @]

\* The engine calls channel_open_session. With the mutex free the handler
\* runs through without an await: lock, insert, drop the guard,
\* Ok((self, session, true)). Otherwise it waits for the mutex.
channel_open_session(h, ch) ==
    /\ pc[h] = "idle"
    /\ chans[h][ch] < MaxOpens
    /\ IF LockFree
       THEN /\ clients' = Registered(h, ch)
            /\ chans' = Opened(h, ch)
            /\ UNCHANGED <<pc, cur, waiters>>
       ELSE /\ pc' = [pc EXCEPT ![h] = "open_wait"]
            /\ cur' = [cur EXCEPT ![h] = [NoCall EXCEPT !.channel = ch]]
            /\ waiters' = Append(waiters, h)
            /\ UNCHANGED <<clients, chans>>
    /\ UNCHANGED <<users, id, nclients, hid, lock, todo, att, inbox, out,
                   events, lastAuth, forwards, tasks>>

\* A handler that had to wait was handed the mutex: insert, drop the guard,
\* Ok((self, session, true)).
open_insert(h) ==
    /\ pc[h] = "open_cs"
    /\ clients' = Registered(h, cur[h].channel)
    /\ chans' = Opened(h, cur[h].channel)
    /\ Unlock(Registered(h, cur[h].channel))
    /\ pc' = PcAfterReturn(h)
    /\ cur' = [cur EXCEPT ![h] = NoCall]
    /\ UNCHANGED <<users, id, nclients, hid, inbox, out, events, lastAuth,
                   forwards, tasks>>

\* ------------------------------------------------------------------ data
\* The engine calls data on an open channel: the line is formatted, and
\* post takes the lock or waits for it. A run has at most n data events.
data_upto(n, h, ch, bytes) ==
    /\ pc[h] = "idle"
    /\ chans[h][ch] > 0
    /\ Len(events) < n
    /\ cur' = [cur EXCEPT ![h] = [channel |-> ch, data |-> FormatLine(bytes),
                                  ev |-> Len(events) + 1]]
    /\ IF LockFree
       THEN /\ lock' = h
            /\ pc' = [pc EXCEPT ![h] = "post_iter"]
            /\ todo' = Others(h, DOMAIN clients)
            /\ att' = {}
            /\ UNCHANGED waiters
       ELSE /\ pc' = [pc EXCEPT ![h] = "post_wait"]
            /\ waiters' = Append(waiters, h)
            /\ UNCHANGED <<lock, todo, att>>
    /\ events' = Append(events, [sender |-> h, channel |-> ch, bytes |-> bytes,
                                  result |-> "pending", failed |-> 0])
    /\ UNCHANGED <<users, id, nclients, hid, chans, clients, inbox, out,
                   lastAuth, forwards, tasks>>

data(h, ch, bytes) == data_upto(MaxData, h, ch, bytes)

\* A loop that a failed send ends (s.data(..).await? instead of let _ =).
Remaining_Abort(k, ok) == IF ok THEN todo \ {k} ELSE {}

\* What is left to visit after the send to entry k returned ok.
Remaining(k, ok) == todo \ {k}

\* A loop that drops the entry of a failed send from the registry.
Visited_Prune(regs, k, ok) ==
    IF ok THEN regs ELSE [x \in DOMAIN regs \ {k} |-> regs[x]]

\* The registry after the loop has visited entry k: iter_mut only lends
\* the handles out, no entry is added or removed.
Visited(regs, k, ok) == regs

\* A queue that hands out the newest message first.
Enqueue_Front(q, m) == <<m>> \o q

\* Where a message sent on a handle is put in the queue.
Enqueue(q, m) == Append(q, m)

\* One turn of the loop of post, on an entry not yet visited (a HashMap
\* iterates in no particular order): let _ = s.data(*channel, data).await.
\*   - Handle::data on a closed connection returns Err, which is dropped;
\*   - otherwise the message is queued, once the queue has room.
post_iter(h, k) ==
    /\ pc[h] = "post_iter"
    /\ k \in todo
    /\ LET dst == clients[k].sess
           m == Msg(k[2], cur[h].data, cur[h].ev, "fanout")
       IN  \/ /\ pc[dst] = "closed"
              /\ todo' = Remaining(k, FALSE)
              /\ att' = att \cup {<<k, FALSE>>}
              /\ clients' = Visited(clients, k, FALSE)
              /\ UNCHANGED inbox
           \/ /\ pc[dst] # "closed"
              /\ Len(inbox[dst]) < QueueCap
              /\ todo' = Remaining(k, TRUE)
              /\ att' = att \cup {<<k, TRUE>>}
              /\ clients' = Visited(clients, k, TRUE)
              /\ inbox' = [inbox EXCEPT ![dst] = Enqueue(@, m)]
    /\ UNCHANGED <<users, id, nclients, hid, pc, cur, chans, lock, waiters,
                   out, events, lastAuth, forwards, tasks>>

\* A handler that hands a failed send on to the engine (s.data(..).await?).
DataResult_Propagate(sends) ==
    IF \E a \in sends : ~a[2] THEN "Err" ELSE "Ok"

\* Ok((self, session)): what data returns after the sends of its post.
DataResult(sends) == "Ok"

\* An echo on every channel of the connection.
Echo_AllChannels(h) ==
    [i \in 1..Cardinality({c \in Channels : chans[h][c] > 0}) |->
        Msg(i, cur[h].data, cur[h].ev, "echo")]

\* session.data(channel, data): the echo, on the channel the data came in.
Echo(h) == <<Msg(cur[h].channel, cur[h].data, cur[h].ev, "echo")>>

\* The loop of post is over: the guard is dropped, post returns, then
\* session.data(channel, data); Ok((self, session)).
post_done(h) ==
    /\ pc[h] = "post_iter"
    /\ todo = {}
    /\ Unlock(clients)
    /\ pc' = PcAfterReturn(h)
    /\ out' = [out EXCEPT ![h] = @ \o Echo(h)]
    /\ events' = [events EXCEPT ![cur[h].ev] =
                     [@ EXCEPT !.result = DataResult(att),
                               !.failed = Cardinality({a \in att : ~a[2]})]]
    /\ cur' = [cur EXCEPT ![h] = NoCall]
    /\ UNCHANGED <<users, id, nclients, hid, chans, clients, inbox, lastAuth,
                   forwards, tasks>>

\* ---------------------------------------------------------------- engine
\* The session loop of connection h, between two callbacks, takes the next
\* message queued on its handles and writes it to the channel.
Drain(h) ==
    /\ pc[h] = "idle"
    /\ inbox[h] # <<>>
    /\ out' = [out EXCEPT ![h] = Append(@, Head(inbox[h]))]
    /\ inbox' = [inbox EXCEPT ![h] = Tail(@)]
    /\ UNCHANGED <<users, id, nclients, hid, pc, cur, chans, clients, lock,
                   waiters, todo, att, events, lastAuth, forwards,
                   tasks>>

\* Connection h ends: the engine drops its session, with the channel table,
\* the output and the queue of its handles; its registry entries stay.
Close(h) ==
    /\ pc[h] = "idle"
    /\ pc' = [pc EXCEPT ![h] = "closed"]
    /\ inbox' = [inbox EXCEPT ![h] = <<>>]
    /\ out' = [out EXCEPT ![h] = <<>>]
    /\ chans' = [chans EXCEPT ![h] = [c \in Channels |-> 0]]
    /\ UNCHANGED <<users, id, nclients, hid, cur, clients, lock, waiters,
                   todo, att, events, lastAuth, forwards, tasks>>

\* The engine numbers the channels of a connection 1, 2, ... as they are
\* opened.
NextChannelId(h) == Cardinality({c \in Channels : chans[h][c] > 0}) + 1

\* The engine holds a session for connection h.
Connected(h) == pc[h] \notin {"absent", "closed"}

\* --------------------------------------------------------- tcpip_forward
Targets == {<<"example.com", 9999>>, <<"", 0>>}   \* address, port asked for
Originator == <<"1.2.3.4", 1234>>
Greeting == "Hello from a forwarded port"
Terminated == {"done", "panicked"}

\* A request that is turned down.
ForwardReply_Deny == FALSE

\* self.finished_bool(true, session)
ForwardReply == TRUE

\* The future handed to tokio::spawn, before its first poll: it owns a
\* handle of the requesting session and the address and port.
NewTask(h, address, port) ==
    [owner |-> h, address |-> address, port |-> port, pc |-> "open",
     log |-> <<>>]

\* tcpip_forward has no await: it takes the handle, spawns the task and
\* answers the request.
tcpip_forward(h, address, port) ==
    /\ pc[h] = "idle"
    /\ Len(tasks) < MaxTasks
    /\ tasks' = Append(tasks, NewTask(h, address, port))
    /\ forwards' = Append(forwards, [conn |-> h, address |-> address,
                                     port |-> port, reply |-> ForwardReply])
    /\ UNCHANGED <<users, id, nclients, hid, pc, cur, chans, clients, lock,
                   waiters, todo, att, inbox, out, events, lastAuth>>

\* Calls that wait for ever once the connection has gone.
Answers_Hang(i) ==
    IF Connected(tasks[i].owner) THEN {TRUE, FALSE} ELSE {}

\* How the engine can answer a call on the task's handle or channel: a
\* closed connection fails it, a connected one carries it out or fails it.
Answers(i) ==
    IF Connected(tasks[i].owner) THEN {TRUE, FALSE} ELSE {FALSE}

\* One call of the task, as the log keeps it.
Call(i, op, args, ok) ==
    [op |-> op, args |-> args, ok |-> ok, live |-> Connected(tasks[i].owner)]

\* An open whose error is dropped like those of the write and the eof.
AfterOpen_Ignore(ok) == "write"

\* .await.unwrap(): Ok goes on to the write, Err panics.
AfterOpen(ok) == IF ok THEN "write" ELSE "panicked"

\* A panic that takes the requesting connection down with the task.
Unwound_Fatal(pcs, owner) == [pcs EXCEPT ![owner] = "closed"]

\* The panic unwinds the spawned task only: the runtime catches it at the
\* task's boundary, the connections go on as they were.
Unwound(pcs, owner) == pcs

\* handle.channel_open_forwarded_tcpip(address, port, "1.2.3.4", 1234)
\*     .await.unwrap()
task_open(i, ok) ==
    /\ i \in 1..Len(tasks)
    /\ tasks[i].pc = "open"
    /\ ok \in Answers(i)
    /\ tasks' = [tasks EXCEPT ![i] =
                    [@ EXCEPT !.pc = AfterOpen(ok),
                              !.log = Append(@, Call(i, "open",
                                  <<tasks[i].address, tasks[i].port,
                                    Originator[1], Originator[2]>>, ok))]]
    /\ pc' = IF ok THEN pc ELSE Unwound(pc, tasks[i].owner)
    /\ UNCHANGED <<users, id, nclients, hid, cur, chans, clients, lock,
                   waiters, todo, att, inbox, out, events, lastAuth,
                   forwards>>

\* let _ = channel.data(&b"Hello from a forwarded port"[..]).await
task_write(i, ok) ==
    /\ i \in 1..Len(tasks)
    /\ tasks[i].pc = "write"
    /\ ok \in Answers(i)
    /\ tasks' = [tasks EXCEPT ![i] =
                    [@ EXCEPT !.pc = "eof",
                              !.log = Append(@, Call(i, "data",
                                                     <<Greeting>>, ok))]]
    /\ UNCHANGED <<users, id, nclients, hid, pc, cur, chans, clients, lock,
                   waiters, todo, att, inbox, out, events, lastAuth,
                   forwards>>

\* let _ = channel.eof().await; the future ends.
task_eof(i, ok) ==
    /\ i \in 1..Len(tasks)
    /\ tasks[i].pc = "eof"
    /\ ok \in Answers(i)
    /\ tasks' = [tasks EXCEPT ![i] =
                    [@ EXCEPT !.pc = "done",
                              !.log = Append(@, Call(i, "eof", <<>>, ok))]]
    /\ UNCHANGED <<users, id, nclients, hid, pc, cur, chans, clients, lock,
                   waiters, todo, att, inbox, out, events, lastAuth,
                   forwards>>

\* The runtime polls task i: its next call returns.
TaskStep(i) ==
    \E ok \in BOOLEAN : task_open(i, ok) \/ task_write(i, ok) \/ task_eof(i, ok)

\* The relay: every connection logs in as alice and opens channels with
\* fresh ids.
Next ==
    \/ NewClient
    \/ \E h \in Handlers : AuthPassword(h, "alice", "secret")
    \/ \E h \in Handlers, ch \in Channels :
          ch = NextChannelId(h) /\ channel_open_session(h, ch)
    \/ \E h \in Handlers : open_insert(h)
    \/ \E h \in Handlers, ch \in Channels, b \in Payloads : data(h, ch, b)
    \/ \E h \in Handlers : \E k \in todo : post_iter(h, k)
    \/ \E h \in Handlers : post_done(h)
    \/ \E h \in Handlers : Drain(h)
    \/ \E h \in Handlers : Close(h)

Spec == Init /\ [][Next]_vars

\* Authentication: the store is any of Stores, the attempts use any user
\* name and credential; accepted connections open channels.
InitAuth ==
    /\ users \in Stores
    /\ id = 0
    /\ nclients = 0
    /\ hid = [h \in Handlers |-> 0]
    /\ pc = [h \in Handlers |-> "absent"]
    /\ cur = [h \in Handlers |-> NoCall]
    /\ chans = [h \in Handlers |-> [c \in Channels |-> 0]]
    /\ clients = EmptyMap
    /\ lock = NoLock
    /\ waiters = <<>>
    /\ todo = {}
    /\ att = {}
    /\ inbox = [h \in Handlers |-> <<>>]
    /\ out = [h \in Handlers |-> <<>>]
    /\ events = <<>>
    /\ lastAuth = NoAttempt
    /\ forwards = <<>>
    /\ tasks = <<>>

NextAuth ==
    \/ NewClient
    \/ \E h \in Handlers, u \in UserNames, p \in Passwords :
          AuthPassword(h, u, p)
    \/ \E h \in Handlers, u \in UserNames, f \in KeyInputs :
          AuthPublickey(h, u, f)
    \/ \E h \in Handlers, ch \in Channels :
          ch = NextChannelId(h) /\ channel_open_session(h, ch)

SpecAuth == InitAuth /\ [][NextAuth]_vars

\* Channel ids that come back: the engine's 32-bit channel counter wraps
\* and hands out the id of a channel that was closed, whose registry
\* entry is still there.
NextReopen ==
    \/ NewClient
    \/ \E h \in Handlers : AuthPassword(h, "alice", "secret")
    \/ \E h \in Handlers, ch \in Channels : channel_open_session(h, ch)
    \/ \E h \in Handlers : Close(h)

SpecReopen == Init /\ [][NextReopen]_vars

\* Forwarding alone: connections that log in, ask for forwardings and
\* close, and the spawned tasks.
NextForward ==
    \/ nclients < MaxPeers /\ NewClient
    \/ \E h \in Handlers : AuthPassword(h, "alice", "secret")
    \/ \E h \in Handlers, t \in Targets : tcpip_forward(h, t[1], t[2])
    \/ \E i \in 1..MaxTasks, ok \in BOOLEAN : task_open(i, ok)
    \/ \E i \in 1..MaxTasks, ok \in BOOLEAN : task_write(i, ok)
    \/ \E i \in 1..MaxTasks, ok \in BOOLEAN : task_eof(i, ok)
    \/ \E h \in Handlers : Close(h)

SpecForward == Init /\ [][NextForward]_vars

\* The runtime polls every spawned task again, and the engine answers or
\* fails each of its calls.
SpecForwardFair ==
    SpecForward /\ \A i \in 1..MaxTasks : WF_vars(TaskStep(i))

\* The relay with forwarding, for MaxPeers connections.
NextAll ==
    \/ nclients < MaxPeers /\ NewClient
    \/ \E h \in Handlers : AuthPassword(h, "alice", "secret")
    \/ \E h \in Handlers, ch \in Channels :
          ch = NextChannelId(h) /\ channel_open_session(h, ch)
    \/ \E h \in Handlers : open_insert(h)
    \/ \E h \in Handlers, ch \in Channels, b \in Payloads : data(h, ch, b)
    \/ \E h \in Handlers : \E k \in todo : post_iter(h, k)
    \/ \E h \in Handlers : post_done(h)
    \/ \E h \in Handlers : Drain(h)
    \/ \E h \in Handlers : Close(h)
    \/ \E h \in Handlers, t \in Targets : tcpip_forward(h, t[1], t[2])
    \/ \E i \in 1..MaxTasks, ok \in BOOLEAN : task_open(i, ok)
    \/ \E i \in 1..MaxTasks, ok \in BOOLEAN : task_write(i, ok)
    \/ \E i \in 1..MaxTasks, ok \in BOOLEAN : task_eof(i, ok)

SpecAll == Init /\ [][NextAll]_vars

\* The relay for MaxPeers connections and MaxBurst data events: enough
\* lines for one connection to fill its queue while it does not read it.
NextBurst ==
    \/ nclients < MaxPeers /\ NewClient
    \/ \E h \in Handlers : AuthPassword(h, "alice", "secret")
    \/ \E h \in Handlers, ch \in Channels :
          ch = NextChannelId(h) /\ channel_open_session(h, ch)
    \/ \E h \in Handlers : open_insert(h)
    \/ \E h \in Handlers, ch \in Channels, b \in Payloads :
          data_upto(MaxBurst, h, ch, b)
    \/ \E h \in Handlers : \E k \in todo : post_iter(h, k)
    \/ \E h \in Handlers : post_done(h)
    \/ \E h \in Handlers : Drain(h)
    \/ \E h \in Handlers : Close(h)

SpecBurst == Init /\ [][NextBurst]_vars

\* ------------------------------------------------------------ observation
\* What connection h was sent, in the order of arrival: what was written to
\* its channels, then what still waits in its queue.
Recv(h) == out[h] \o inbox[h]

\* How many messages of data event ev a queue holds for channel ch.
CopiesIn(q, ch, ev) ==
    Cardinality({i \in 1..Len(q) : q[i].channel = ch /\ q[i].ev = ev})

\* All messages of data event ev in a family of queues, as (handler, place).
AllCopies(qs, ev) ==
    UNION {{<<h, i>> : i \in {j \in 1..Len(qs[h]) : qs[h][j].ev = ev}} :
           h \in Handlers}

\* The data handler of event ev has returned.
Done(ev) == ev \in 1..Len(events) /\ \A h \in Handlers : cur[h].ev # ev

\* Every connection of the registry is connected and has one channel there.
OneChannelEach ==
    /\ \A k \in DOMAIN clients : Connected(clients[k].sess)
    /\ \A k1, k2 \in DOMAIN clients : k1[1] = k2[1] => k1 = k2

\* The line for the modelled payload: 'h', U+00E9, one U+FFFD for the
\* sequence cut short and one for 0xFF.
ExpectedLine == <<"Got data: ", 104, 233, 65533, 65533, "\r\n">>

\* ----------------------------------------------------------------- C1
\* The step in which the data handler of s returns.
Returns(s) == pc[s] = "post_iter" /\ todo = {} /\ pc'[s] = "idle"

C1_Step ==
    \A s \in Handlers :
        (Returns(s) /\ OneChannelEach) =>
            LET ev == cur[s].ev
                qs == [h \in Handlers |-> out'[h] \o inbox'[h]]
            IN  /\ \A k \in DOMAIN clients :
                      LET d == clients[k].sess
                      IN  /\ CopiesIn(qs[d], k[2], ev) = 1
                          /\ \A i \in 1..Len(qs[d]) :
                                qs[d][i].ev = ev =>
                                  /\ qs[d][i].data = ExpectedLine
                                  /\ qs[d][i].via =
                                        IF d = s THEN "echo" ELSE "fanout"
                /\ Cardinality(AllCopies(qs, ev)) = Cardinality(DOMAIN clients)

C1_NoDup(qs) ==
    \A h \in Handlers, ch \in Channels, ev \in 1..Len(events) :
        CopiesIn(qs[h], ch, ev) <= 1

\* C1: when every registered connection is connected and has exactly one
\* channel (N connections), the data handler of sender S returns with
\* exactly one copy of the line "Got data: P\r\n" delivered to the channel
\* of each connection - by the fan-out for the N-1 others, by the echo for
\* S - so N copies in all; and no channel ever holds the line of one data
\* event twice.
C1_Broadcast ==
    [][C1_Step /\ C1_NoDup([h \in Handlers |-> out'[h] \o inbox'[h]])]_vars

\* Three connections with one channel each have all been written the line
\* of a finished data event.
C1_Witness ==
    \E ev \in 1..Len(events) :
        /\ Done(ev)
        /\ OneChannelEach
        /\ Cardinality(DOMAIN clients) = 3
        /\ \A k \in DOMAIN clients :
              CopiesIn(out[clients[k].sess], k[2], ev) = 1

\* ----------------------------------------------------------------- C2
AttKeys == {a[1] : a \in att}

\* C2: in a running broadcast, once a send has failed, every registry entry
\* of another connection id is still either already attempted or still to
\* be visited: the failure drops no entry from the fan-out, so when the loop
\* ends all of them have had their attempt.
C2_FailureDoesNotStop ==
    \A h \in Handlers :
        (pc[h] = "post_iter" /\ \E a \in att : ~a[2]) =>
            {k \in DOMAIN clients : k[1] # hid[h]} \subseteq (AttKeys \cup todo)

\* A broadcast has visited every entry: the send to the stale entry of a
\* closed connection failed, the send to a connected one succeeded.
C2_Witness ==
    \E h \in Handlers :
        /\ pc[h] = "post_iter"
        /\ todo = {}
        /\ \E a, b \in att :
              /\ ~a[2] /\ b[2]
              /\ clients[a[1]].sess # clients[b[1]].sess
              /\ Connected(clients[b[1]].sess)

\* ----------------------------------------------------------------- C3
\* C3: register never overwrites: no step replaces the handle the registry
\* holds for a key, and a channel-open whose key is already registered is
\* not granted (it is a fatal error of that registration).
C3_NoSilentOverwrite ==
    [][/\ \A k \in DOMAIN clients :
             k \in DOMAIN clients' /\ clients'[k] = clients[k]
       /\ \A h \in Handlers, ch \in Channels :
             (<<hid[h], ch>> \in DOMAIN clients /\ Connected(h)) =>
                 chans'[h][ch] <= chans[h][ch]]_vars

\* ----------------------------------------------------------------- C4
\* C4: of the lines of a data event, the sender's connection gets exactly
\* the echo on the originating channel and nothing on any other of its
\* channels; every other connection's messages come from the fan-out, and
\* when the fan-out has visited all entries each channel of every other
\* connected connection holds exactly one copy.
C4_EchoOnlyOrigin ==
    /\ \A h \in Handlers : \A i \in 1..Len(Recv(h)) :
          LET m == Recv(h)[i]
              e == events[m.ev]
          IN  IF h = e.sender
              THEN m.via = "echo" /\ m.channel = e.channel
              ELSE m.via = "fanout"
    /\ \A ev \in 1..Len(events) :
          (Done(ev) /\ Connected(events[ev].sender)) =>
              \A ch \in Channels :
                  CopiesIn(Recv(events[ev].sender), ch, ev) =
                      IF ch = events[ev].channel THEN 1 ELSE 0
    /\ \A s \in Handlers :
          (pc[s] = "post_iter" /\ todo = {}) =>
              \A k \in DOMAIN clients :
                  (k[1] # hid[s] /\ Connected(clients[k].sess)) =>
                      CopiesIn(Recv(clients[k].sess), k[2], cur[s].ev) = 1

\* A sender with two registered channels has finished a data event; another
\* connection has the line on both of its channels.
C4_Witness ==
    \E ev \in 1..Len(events) :
        LET s == events[ev].sender
        IN  /\ Done(ev)
            /\ Connected(s)
            /\ \A ch \in Channels : chans[s][ch] > 0
            /\ \E d \in Handlers \ {s} :
                  \A ch \in Channels : CopiesIn(out[d], ch, ev) = 1

\* ----------------------------------------------------------------- C5
InCS(h) == pc[h] \in {"open_cs", "post_iter"}

\* C5: at most one handler is inside a critical section of the registry,
\* and it holds the lock; while a broadcast runs, the entries it has
\* attempted and those it has still to visit are together exactly the
\* registry's entries of other connections, so the registry it iterates is
\* the one of the instant it took the lock.
C5_MutualExclusion ==
    /\ \A h1, h2 \in Handlers : (InCS(h1) /\ InCS(h2)) => h1 = h2
    /\ \A h \in Handlers : InCS(h) => lock = h
    /\ \A h \in Handlers :
          pc[h] = "post_iter" =>
              /\ AttKeys \cup todo = {k \in DOMAIN clients : k[1] # hid[h]}
              /\ AttKeys \cap todo = {}

\* A broadcast is in the middle of its fan-out while another connection
\* waits to register a channel that is not yet in the registry.
C5_Witness ==
    \E h, w \in Handlers :
        /\ pc[h] = "post_iter"
        /\ att # {}
        /\ todo # {}
        /\ pc[w] = "open_wait"
        /\ <<hid[w], cur[w].channel>> \notin DOMAIN clients

\* ----------------------------------------------------------------- C6
\* C6: no step removes a registry key, and every channel-open that returns
\* leaves its own key in the registry, bound to its own connection, with
\* all other entries as they were and the registry one entry larger.
C6_NoLostRegistration ==
    [][/\ DOMAIN clients \subseteq DOMAIN clients'
       /\ \A h \in Handlers, ch \in Channels :
             chans'[h][ch] > chans[h][ch] =>
                 /\ <<hid[h], ch>> \in DOMAIN clients'
                 /\ clients'[<<hid[h], ch>>].sess = h
                 /\ \A k \in DOMAIN clients : clients'[k] = clients[k]
                 /\ Cardinality(DOMAIN clients') =
                        Cardinality(DOMAIN clients) + 1]_vars

\* Two connections wait to register at the same time, and the registry
\* already holds entries of three connections.
C6_Witness ==
    /\ \E h1, h2 \in Handlers :
          h1 # h2 /\ pc[h1] = "open_wait" /\ pc[h2] = "open_wait"
    /\ Cardinality({k[1] : k \in DOMAIN clients}) = 3

\* ----------------------------------------------------------------- C7
\* C7: when a connection's second data event exists, the handler of its
\* earlier one has returned; and on every channel the lines of two data
\* events of one sender arrive in the order of the events.
C7_PerSenderOrder ==
    /\ \A e1, e2 \in 1..Len(events) :
          (e1 < e2 /\ events[e1].sender = events[e2].sender) => Done(e1)
    /\ \A h \in Handlers : \A i, j \in 1..Len(Recv(h)) :
          (/\ i < j
           /\ Recv(h)[i].channel = Recv(h)[j].channel
           /\ events[Recv(h)[i].ev].sender = events[Recv(h)[j].ev].sender)
          => Recv(h)[i].ev < Recv(h)[j].ev

\* A channel of another connection was written the lines of two data events
\* of one sender, the earlier first.
C7_Witness ==
    \E h \in Handlers : \E i, j \in 1..Len(out[h]) :
        /\ i < j
        /\ out[h][i].channel = out[h][j].channel
        /\ out[h][i].via = "fanout" /\ out[h][j].via = "fanout"
        /\ events[out[h][i].ev].sender = events[out[h][j].ev].sender
        /\ out[h][i].ev < out[h][j].ev

\* ----------------------------------------------------------------- C8
\* C8: a password attempt is accepted exactly when the user is in the
\* store, has a password configured and the supplied password equals it;
\* every other attempt is rejected.
C8_PasswordAuth ==
    lastAuth.method = "password" =>
        /\ lastAuth.result.tag \in {"Accept", "Reject"}
        /\ lastAuth.result.tag = "Accept" <=>
              /\ lastAuth.user \in DOMAIN users
              /\ users[lastAuth.user].password # NoPassword
              /\ users[lastAuth.user].password = lastAuth.credential

\* A password attempt was accepted.
C8_Witness ==
    /\ lastAuth.method = "password"
    /\ lastAuth.result.tag = "Accept"
    /\ lastAuth.user \in DOMAIN users

\* ----------------------------------------------------------------- C9
\* C9: a public-key attempt is accepted exactly when the user is in the
\* store and the fingerprint is one of that user's keys; a user without
\* that key is rejected whether or not a password is configured.
C9_PublickeyAuth ==
    lastAuth.method = "publickey" =>
        /\ lastAuth.result.tag \in {"Accept", "Reject"}
        /\ lastAuth.result.tag = "Accept" <=>
              /\ lastAuth.user \in DOMAIN users
              /\ lastAuth.credential \in users[lastAuth.user].keys

\* A user with a configured password and no key presented a fingerprint
\* that another user of the store has, and was rejected.
C9_Witness ==
    /\ lastAuth.method = "publickey"
    /\ lastAuth.result.tag = "Reject"
    /\ lastAuth.user \in DOMAIN users
    /\ users[lastAuth.user].password # NoPassword
    /\ users[lastAuth.user].keys = {}
    /\ \E u \in DOMAIN users : lastAuth.credential \in users[u].keys

\* ---------------------------------------------------------------- C10
\* The credential of the attempt is the right one for its method.
RightCredential ==
    /\ lastAuth.user \in DOMAIN users
    /\ \/ /\ lastAuth.method = "password"
          /\ users[lastAuth.user].password # NoPassword
          /\ users[lastAuth.user].password = lastAuth.credential
       \/ /\ lastAuth.method = "publickey"
          /\ lastAuth.credential \in users[lastAuth.user].keys

\* A step in which an authentication callback ran.
AuthStep ==
    \/ lastAuth' # lastAuth
    \/ \E h \in Handlers : pc[h] \in AuthPhase /\ pc'[h] # pc[h]

\* C10: every reject names all methods to go on with; an attempt with the
\* right credential is accepted also on a connection that was rejected
\* before; and an authentication callback changes neither the credential
\* store nor the registry.
C10_StatelessRetry ==
    /\ [](lastAuth.method # "none" =>
            /\ lastAuth.result.tag = "Reject" =>
                  lastAuth.result.proceed_with_methods = MethodSetAll
            /\ RightCredential => lastAuth.result.tag = "Accept")
    /\ [][AuthStep => (users' = users /\ clients' = clients)]_vars

\* A connection that was rejected before is accepted, while the registry
\* holds channels of other connections.
C10_Witness ==
    /\ lastAuth.retry
    /\ lastAuth.result.tag = "Accept"
    /\ clients # EmptyMap

\* ---------------------------------------------------------------- C11
\* The calls of a forwarded-channel task, in the order of its code.
TaskCalls == <<"open", "data", "eof">>

\* C11: every forwarding request was answered with a grant, whatever its
\* address and port, and the grants and the spawned tasks correspond one to
\* one; the calls of a task are a prefix of open, write, end-of-data: the
\* open names the requested address and port and the originator
\* 1.2.3.4:1234, the write carries "Hello from a forwarded port" and comes
\* only after a successful open, end-of-data comes only after the write, and
\* the task is over once end-of-data was signalled.
C11_ForwardTask ==
    /\ Len(forwards) = Len(tasks)
    /\ \A i \in 1..Len(forwards) :
          /\ forwards[i].reply = TRUE
          /\ tasks[i].owner = forwards[i].conn
          /\ tasks[i].address = forwards[i].address
          /\ tasks[i].port = forwards[i].port
    /\ \A i \in 1..Len(tasks) :
          LET t == tasks[i]
              n == Len(t.log)
          IN  /\ n <= 3
              /\ \A j \in 1..n : t.log[j].op = TaskCalls[j]
              /\ n >= 1 => t.log[1].args =
                              <<t.address, t.port, "1.2.3.4", 1234>>
              /\ n >= 2 => /\ t.log[1].ok
                           /\ t.log[2].args = <<"Hello from a forwarded port">>
              /\ t.pc = "open" <=> n = 0
              /\ t.pc = "write" <=> (n = 1 /\ t.log[1].ok)
              /\ t.pc = "panicked" <=> (n = 1 /\ ~t.log[1].ok)
              /\ t.pc = "eof" <=> n = 2
              /\ t.pc = "done" <=> n = 3

\* A request for the empty address and port 0 was granted and its task has
\* opened the channel, written the greeting and signalled end-of-data.
C11_Witness ==
    \E i \in 1..Len(tasks) :
        /\ forwards[i].reply
        /\ forwards[i].address = "" /\ forwards[i].port = 0
        /\ tasks[i].pc = "done"
        /\ \A j \in 1..3 : tasks[i].log[j].ok

\* ---------------------------------------------------------------- C12
\* A step in which a forwarded-channel task made one of its calls.
IsTaskStep == tasks' # tasks /\ Len(tasks') = Len(tasks)

\* Task i has had a call fail on a connection that was still there.
FailedLive(i) ==
    \E j \in 1..Len(tasks[i].log) :
        ~tasks[i].log[j].ok /\ tasks[i].log[j].live

\* C12: whenever a task exists, its request has already been answered with
\* a grant, and no step of a task - a failed open, write or end-of-data
\* included - changes that answer, the state of the requesting or of any
\* other connection (its handler, channels, queue and output), the lock or
\* the registry: whatever a connection could do before the step it can do
\* after it.
C12_FailureConfined ==
    /\ [](\A i \in 1..Len(tasks) :
            /\ i <= Len(forwards)
            /\ forwards[i].conn = tasks[i].owner
            /\ forwards[i].reply = TRUE)
    /\ [][IsTaskStep =>
            UNCHANGED <<users, id, nclients, hid, pc, cur, chans, clients,
                        lock, waiters, todo, att, inbox, out, events,
                        lastAuth, forwards>>]_vars

\* The open of a task failed and the task panicked while its connection was
\* there; that connection is in the middle of a broadcast and has delivered
\* the line to another connection.
C12_Witness ==
    \E i \in 1..Len(tasks) :
        /\ tasks[i].pc = "panicked"
        /\ FailedLive(i)
        /\ forwards[i].reply
        /\ pc[tasks[i].owner] = "post_iter"
        /\ \E a \in att : a[2]

\* ---------------------------------------------------------------- C13
\* C13: every spawned task eventually terminates - it has signalled
\* end-of-data or it has panicked on a failed open - whatever its connection
\* does meanwhile, closing included, provided the runtime keeps polling the
\* task and the engine answers or fails each of its calls.
C13_TaskTerminates ==
    \A i \in 1..MaxTasks :
        (Len(tasks) >= i) ~> (Len(tasks) >= i /\ tasks[i].pc \in Terminated)

\* A task opened its channel while its connection was there, then the
\* connection closed, the remaining calls failed and the task is over.
C13_Witness ==
    \E i \in 1..Len(tasks) :
        /\ tasks[i].pc = "done"
        /\ pc[tasks[i].owner] = "closed"
        /\ tasks[i].log[1].ok /\ tasks[i].log[1].live
        /\ ~tasks[i].log[2].live /\ ~tasks[i].log[2].ok
        /\ ~tasks[i].log[3].ok

\* ---------------------------------------------------------------- C14
\* The handlers new_client has returned, numbered in the order of the calls.
Accepted == 1..nclients

\* C14: of two handlers, the one new_client returned later has the strictly
\* greater connection id, so no two connections, closed ones included,
\* share an id; the id the next connection will get is greater than all
\* ids given out; and every registry key carries the id of exactly one
\* connection, the one whose handle it is bound to.
C14_UniqueIds ==
    /\ \A h1, h2 \in Accepted : h1 < h2 => hid[h1] < hid[h2]
    /\ \A h \in Accepted : hid[h] < id
    /\ \A k \in DOMAIN clients : \A h \in Accepted :
          hid[h] = k[1] <=> h = clients[k].sess

\* Three connections were accepted; the first has closed and left an entry
\* in the registry, the third has registered a channel of the same number.
C14_Witness ==
    /\ nclients = 3
    /\ pc[1] = "closed"
    /\ \E ch \in Channels :
          /\ <<hid[1], ch>> \in DOMAIN clients
          /\ <<hid[3], ch>> \in DOMAIN clients
          /\ clients[<<hid[3], ch>>].sess = 3

\* ---------------------------------------------------------------- C15
\* The registry entries a broadcast of handler s has to attempt.
OtherKeys(s) == {k \in DOMAIN clients : k[1] # hid[s]}

\* C15: the result of a data handler is never an error; a handler leaves
\* its fan-out only by returning, and when it returns - each of its sends
\* having come back with Ok or with Err, whichever of them failed - it has
\* attempted every entry of another connection, the line "Got data: "
\* followed by the payload decoded with U+FFFD for its invalid parts and
\* "\r\n" has been echoed to the originating channel as the last output of
\* its connection, and its result is Ok.
C15_DataAlwaysOk ==
    /\ [](\A ev \in 1..Len(events) :
            /\ events[ev].result \in {"pending", "Ok"}
            /\ events[ev].result = "Ok" <=> Done(ev))
    /\ [][\A s \in Handlers :
            (pc[s] = "post_iter" /\ pc'[s] # "post_iter") =>
                LET ev == cur[s].ev
                IN  /\ Returns(s)
                    /\ AttKeys = OtherKeys(s)
                    /\ events'[ev].result = "Ok"
                    /\ events'[ev].failed =
                          Cardinality({k \in OtherKeys(s) :
                                         <<k, FALSE>> \in att})
                    /\ out'[s] = Append(out[s],
                          [channel |-> events[ev].channel,
                           data |-> <<"Got data: ", 104, 233, 65533, 65533,
                                      "\r\n">>,
                           ev |-> ev, via |-> "echo"])]_vars

\* A data handler has returned Ok although a delivery of its fan-out had
\* failed; its connection was written the echo and another connection the
\* line of the fan-out.
C15_Witness ==
    \E ev \in 1..Len(events) :
        /\ events[ev].result = "Ok"
        /\ events[ev].failed > 0
        /\ events[ev].bytes = <<104, 195, 169, 226, 130, 255>>
        /\ CopiesIn(out[events[ev].sender], events[ev].channel, ev) = 1
        /\ \E d \in Handlers \ {events[ev].sender} :
              \E i \in 1..Len(out[d]) :
                  out[d][i].ev = ev /\ out[d][i].via = "fanout"

\* ---------------------------------------------------------------- C16
\* A step in which a channel-open of handler h for channel ch returns.
OpenReturns(h, ch) ==
    \/ /\ pc[h] = "idle" /\ lock = NoLock /\ pc'[h] = "idle"
       /\ \/ chans'[h][ch] # chans[h][ch]
          \/ /\ <<hid[h], ch>> \in DOMAIN clients'
             /\ <<hid[h], ch>> \in DOMAIN clients =>
                   clients'[<<hid[h], ch>>] # clients[<<hid[h], ch>>]
    \/ pc[h] = "open_cs" /\ cur[h].channel = ch /\ pc'[h] = "idle"

\* C16: a channel-open that returns was granted - the channel is open on
\* its connection - and has left the key (own id, channel) in the registry,
\* bound to a handle of its own connection; the registry changes in no
\* other way than by such a grant; and in every state each registry key
\* carries the id of the connection its handle delivers to, was put there
\* by a channel-open of that connection for that channel, and, while the
\* connection is there, is bound to the handle of the latest such open.
C16_OpenRegisters ==
    /\ [](\A k \in DOMAIN clients :
            LET c == clients[k].sess
            IN  /\ c \in 1..nclients
                /\ k[1] = hid[c]
                /\ k[2] \in Channels
                /\ clients[k].inst >= 1
                /\ Connected(c) => clients[k].inst = chans[c][k[2]])
    /\ [][/\ \A h \in Handlers, ch \in Channels :
                OpenReturns(h, ch) =>
                    /\ chans'[h][ch] = chans[h][ch] + 1
                    /\ <<hid[h], ch>> \in DOMAIN clients'
                    /\ clients'[<<hid[h], ch>>] = [sess |-> h,
                                                  inst |-> chans'[h][ch]]
          /\ clients' # clients =>
                \E h \in Handlers, ch \in Channels :
                    /\ OpenReturns(h, ch)
                    /\ DOMAIN clients' = DOMAIN clients \cup {<<hid[h], ch>>}
                    /\ \A k \in DOMAIN clients \ {<<hid[h], ch>>} :
                          clients'[k] = clients[k]]_vars

\* Two connections have registered two channels each; the second channel
\* of one came into the registry after a broadcast of the other had begun,
\* so that broadcast delivered to its first channel only.
C16_Witness ==
    \E h1, h2 \in Handlers :
        /\ h1 # h2
        /\ Connected(h1) /\ Connected(h2)
        /\ \A ch \in Channels :
              /\ <<hid[h1], ch>> \in DOMAIN clients
              /\ <<hid[h2], ch>> \in DOMAIN clients
              /\ clients[<<hid[h2], ch>>] = [sess |-> h2, inst |-> 1]
        /\ \E ev \in 1..Len(events) :
              /\ events[ev].sender = h1
              /\ Done(ev)
              /\ CopiesIn(Recv(h2), 1, ev) = 1
              /\ CopiesIn(Recv(h2), 2, ev) = 0

\* ---------------------------------------------------------------- C17
\* A step of something other than a channel-open: a data event or a send or
\* the return of its broadcast, an authentication attempt, a forwarding
\* request or a call of its task, a delivery by the engine, a close.
OtherStep ==
    \/ events' # events
    \/ att' # att
    \/ inbox' # inbox
    \/ out' # out
    \/ lastAuth' # lastAuth
    \/ forwards' # forwards
    \/ tasks' # tasks
    \/ \E h \in Handlers : pc'[h] = "closed" /\ pc[h] # "closed"

\* C17: no step removes a key from the registry; a step that changes the
\* registry is the return of a granted channel-open; data events,
\* broadcasts, authentication, forwarding requests, the forwarded-channel
\* tasks and closes leave the registry as it is; and a broadcast that comes
\* to the entry of a closed connection makes its attempt there, which fails
\* and changes nothing but the loop's own progress.
C17_RegistryOnlyGrows ==
    [][/\ DOMAIN clients \subseteq DOMAIN clients'
       /\ clients' # clients =>
             \E h \in Handlers, ch \in Channels :
                 OpenReturns(h, ch) /\ chans'[h][ch] = chans[h][ch] + 1
       /\ OtherStep => clients' = clients
       /\ \A k \in todo :
             (pc[clients[k].sess] = "closed" /\ k \notin todo') =>
                 /\ <<k, FALSE>> \in att'
                 /\ todo' = todo \ {k}
                 /\ inbox' = inbox /\ pc' = pc /\ lock' = lock]_vars

\* A connection has closed and its entry is still in the registry; after a
\* forwarding request, the other connection broadcasts and its delivery to
\* that entry has failed.
C17_Witness ==
    \E s \in Handlers :
        /\ pc[s] = "post_iter"
        /\ Len(forwards) > 0
        /\ \E k \in DOMAIN clients :
              /\ pc[clients[k].sess] = "closed"
              /\ k[1] # hid[s]
              /\ <<k, FALSE>> \in att

\* ---------------------------------------------------------------- C18
\* Handler h is suspended in self.clients.lock().await.
WaitsForLock(h) == pc[h] \in {"open_wait", "post_wait"}

\* The send to entry k cannot return: the queue of its connection is full
\* and that connection does not read it, its handler waiting for the lock.
SendStuck(k) ==
    LET d == clients[k].sess
    IN  /\ pc[d] # "closed"
        /\ Len(inbox[d]) >= QueueCap
        /\ WaitsForLock(d)

\* A broadcast holds the lock and every send it has left is stuck.
LockDeadlock ==
    \E s \in Handlers :
        /\ pc[s] = "post_iter"
        /\ lock = s
        /\ todo # {}
        /\ \A k \in todo : SendStuck(k)

\* C18: every broadcast and every channel-open that starts completes and
\* releases the lock: no state is reached in which the broadcast that holds
\* the lock waits for the queue of a connection whose own handler waits for
\* that lock.
C18_NoLockDeadlock == ~LockDeadlock

\* ---------------------------------------------------------------- C19
\* Channel c of connection h was sent the fan-out line of data event e.
Has(h, c, e) ==
    \E i \in 1..Len(Recv(h)) :
        /\ Recv(h)[i].channel = c /\ Recv(h)[i].ev = e
        /\ Recv(h)[i].via = "fanout"

\* Where that line stands among what connection h was sent.
Pos(h, c, e) ==
    CHOOSE i \in 1..Len(Recv(h)) :
        /\ Recv(h)[i].channel = c /\ Recv(h)[i].ev = e
        /\ Recv(h)[i].via = "fanout"

\* Channel c of connection h was sent the lines of both events.
HasBoth(h, c, e1, e2) == Has(h, c, e1) /\ Has(h, c, e2)

\* The fan-out of data event e is under way: some but not all of its
\* deliveries are made.
MidFanout(e) ==
    \E s \in Handlers :
        pc[s] = "post_iter" /\ cur[s].ev = e /\ att # {} /\ todo # {}

\* C19: for two data events of different connections, the fan-out of one
\* has made none of its deliveries while the fan-out of the other is under
\* way, and any two channels of connections other than the two senders that
\* were sent both lines were sent them in the same order.
C19_FanoutAtomic ==
    \A e1, e2 \in 1..Len(events) :
        (e1 # e2 /\ events[e1].sender # events[e2].sender) =>
            /\ MidFanout(e1) =>
                  \/ \A h \in Handlers, c \in Channels : ~Has(h, c, e2)
                  \/ Done(e2)
            /\ \A h1, h2 \in Handlers \ {events[e1].sender, events[e2].sender} :
                  \A c1, c2 \in Channels :
                      (HasBoth(h1, c1, e1, e2) /\ HasBoth(h2, c2, e1, e2)) =>
                          (Pos(h1, c1, e1) < Pos(h1, c1, e2) <=>
                           Pos(h2, c2, e1) < Pos(h2, c2, e2))

\* Both channels of a third connection were written the lines of two
\* senders, the line of the first event first; the sender of the second
\* event was written its own echo before the line of the first.
C19_Witness ==
    \E e1, e2 \in 1..Len(events) : \E h \in Handlers :
        LET s1 == events[e1].sender
            s2 == events[e2].sender
        IN  /\ e1 < e2 /\ s1 # s2 /\ h \notin {s1, s2}
            /\ \A c \in Channels :
                  /\ CopiesIn(out[h], c, e1) = 1
                  /\ CopiesIn(out[h], c, e2) = 1
                  /\ Pos(h, c, e1) < Pos(h, c, e2)
            /\ \E i, j \in 1..Len(out[s2]) :
                  /\ i < j
                  /\ out[s2][i].ev = e2 /\ out[s2][i].via = "echo"
                  /\ out[s2][j].ev = e1 /\ out[s2][j].via = "fanout"

====
